---------------------------- MODULE Spec2Model ----------------------------
(***************************************************************************)
(* Guest side of the serval SDK boundary protocol (src/src/lib.rs):        *)
(* invoke_extension, the exported alloc / dealloc, and the private reader  *)
(* get_bytes_from_host, running on a 32-bit linear memory (wasm32: usize   *)
(* and pointers are 32 bits wide, the foreign call returns an i32).        *)
(*                                                                         *)
(* Numbers of the address width are kept at their full 32 bits.  TLC's     *)
(* integers stop at 2^31 - 1, so an unsigned 32-bit quantity (and the sum  *)
(* of two of them) is a pair <<hi, lo>> of 16-bit limbs standing for       *)
(* hi * 2^16 + lo; i32 values are plain integers.                          *)
(***************************************************************************)
EXTENDS Integers, Sequences, FiniteSets, TLC

(***************************************************************************)
(* Bounds of the model.                                                    *)
(***************************************************************************)
\* longest payload / response the caller and the host exchange
MaxLen == 2
\* number of places the allocator may put a block the host asks for
NumSlots == 3
\* most handles the host keeps for itself at a time
MaxHeld == 1

(***************************************************************************)
(* Program constants.                                                      *)
(***************************************************************************)
\* size_of::<u32>() (and size_of::<i32>()): the width of the length prefix
PrefixLen == 4

(***************************************************************************)
(* 32-bit arithmetic on limb pairs.                                        *)
(***************************************************************************)
Limb == 256 * 256

\* a small natural number as a limb pair
W(n) == <<n \div Limb, n % Limb>>

\* exact sum (the high limb may reach 2^16 and above: no wraparound here)
WAdd(a, b) == <<a[1] + b[1] + ((a[2] + b[2]) \div Limb), (a[2] + b[2]) % Limb>>

WLt(a, b) == a[1] < b[1] \/ (a[1] = b[1] /\ a[2] < b[2])

WLe(a, b) == a = b \/ WLt(a, b)

\* 2^32: one past the last byte of the linear memory
MemEnd == <<Limb, 0>>

\* u32::MAX
U32Max == <<Limb - 1, Limb - 1>>

\* isize::MAX on the 32-bit target, the largest size Vec will allocate
IsizeMax == <<(Limb \div 2) - 1, Limb - 1>>

\* usize arithmetic that wraps at the address width
WrapUsize(w) == <<w[1] % Limb, w[2]>>

\* `x as u32` of a pointer or a length: truncation to 32 bits
AsU32(w) == <<w[1] % Limb, w[2]>>

\* the i32 with the bits of a u32: what a 32-bit offset is as a call result
AsI32(u) == IF u[1] < Limb \div 2 THEN u[1] * Limb + u[2]
            ELSE (u[1] - Limb) * Limb + u[2]

\* `out_ptr as usize` of an i32 (sign-extending; the identity on values >= 0)
AsUsize(i) == <<(i \div Limb) % Limb, i % Limb>>

\* u32::to_le_bytes, as the host writes the prefix
ToLeBytes(u) == <<u[2] % 256, u[2] \div 256, u[1] % 256, u[1] \div 256>>

\* u32::from_le_bytes
FromLeBytes(b) == <<b[3] + 256 * b[4], b[1] + 256 * b[2]>>


(***************************************************************************)
(* State.                                                                  *)
(***************************************************************************)
VARIABLES
    heap,       \* the live blocks of the guest's linear memory
    hostHeld,   \* the handles (offset, size) alloc gave the host and the host still owns
    conv,       \* the host has followed the convention so far
    pc,         \* where control is: the caller, the host, a line of the guest, or trapped
    name,       \* bytes of extension_name of the invocation in progress
    data,       \* bytes of the payload of the invocation in progress
    namePtr,    \* extension_name_bytes.as_ptr()
    dataPtr,    \* data.as_ptr()
    calls,      \* the foreign calls issued by the invocation in progress, oldest first
    outPtr,     \* out_ptr, the i32 the foreign call returned
    numBytes,   \* num_bytes, the decoded length prefix
    bytes,      \* the Vec the reader copies into
    result,     \* what invoke_extension returned
    log,        \* reads and releases done by the invocation in progress, oldest first
    sent,       \* what the host put behind the offset it returned
    leftAtRet,  \* the host-created blocks live when the foreign call returned
    ev          \* the operation that led to this state, with its arguments

vars == <<heap, hostHeld, conv, pc, name, data, namePtr, dataPtr, calls,
          outPtr, numBytes, bytes, result, log, sent, leftAtRet, ev>>

(***************************************************************************)
(* The linear memory and Rust's allocator underneath Vec.                  *)
(***************************************************************************)
\* NonNull::dangling() of a u8: the pointer of a Vec that owns no memory
Dangling == W(1)

Null == W(0)

\* a live block: `init` holds the bytes written so far, from its first byte on
Block(off, size, by, init) == [off |-> off, size |-> size, by |-> by, init |-> init]

\* the first place lies above 2^31, the others below
SlotAddr(i) == IF i = 0 THEN <<Limb \div 2, 16>> ELSE <<0, 16 * i>>

\* the addresses the allocator may answer with (never Null: Null is its failure)
Slots == {SlotAddr(i) : i \in 0 .. NumSlots - 1}

Overlaps(b, off, size) ==
    WLt(off, WAdd(b.off, b.size)) /\ WLt(b.off, WAdd(off, size))

\* where the guest's own Vecs (the name, the payload, the reader's copy) go
GuestSlots == {<<0, 1024 + 16 * i>> : i \in 0 .. 2}

Fits(h, off, size) ==
    WLe(WAdd(off, size), MemEnd) /\ \A b \in h : ~Overlaps(b, off, size)

\* where the allocator may put a block of `size` bytes beside the live ones:
\* any free place for a block the host asks for; the guest's own Vecs take the
\* first free place of their part of the memory (nothing depends on where
\* they are but that they are apart from every other block)
Places(h, size, by) ==
    IF by = "host" THEN {off \in Slots : Fits(h, off, size)}
    ELSE {off \in GuestSlots :
            /\ Fits(h, off, size)
            /\ \A o \in GuestSlots : Fits(h, o, size) => o[2] >= off[2]}

\* Vec::with_capacity(len) / vec![0; len] holding `init`: no memory for len = 0,
\* a capacity-overflow panic above isize::MAX, an abort when memory is exhausted
VecWithCapacity(h, len, by, init) ==
    IF len = W(0)
      THEN {[trap |-> FALSE, ptr |-> Dangling, heap |-> h]}
    ELSE IF WLt(IsizeMax, len) \/ Places(h, len, by) = {}
      THEN {[trap |-> TRUE, ptr |-> Null, heap |-> h]}
    ELSE {[trap |-> FALSE, ptr |-> off, heap |-> h \cup {Block(off, len, by, init)}]
            : off \in Places(h, len, by)}

\* drop of a Vec<u8> with pointer `ptr` and capacity `cap`: nothing for cap = 0,
\* the block goes when (ptr, cap) is a live block, undefined otherwise (the
\* allocator traps, or frees whatever starts at ptr)
DropVec(h, ptr, cap) ==
    IF cap = W(0)
      THEN {[trap |-> FALSE, bad |-> FALSE, heap |-> h]}
    ELSE IF \E b \in h : b.off = ptr /\ b.size = cap
      THEN {[trap |-> FALSE, bad |-> FALSE,
             heap |-> {b \in h : b.off # ptr}]}
    ELSE {[trap |-> TRUE, bad |-> TRUE, heap |-> h],
          [trap |-> FALSE, bad |-> TRUE, heap |-> {b \in h : b.off # ptr}]}

(***************************************************************************)
(* The exported allocator.                                                 *)
(***************************************************************************)
\* alloc without mem::forget: the buffer is freed when alloc returns
alloc_dropped(h, len) ==
    {[o EXCEPT !.heap = h] : o \in VecWithCapacity(h, len, "host", <<>>)}

\* alloc(len): Vec::with_capacity(len), as_mut_ptr, mem::forget, return ptr
alloc(h, len) == VecWithCapacity(h, len, "host", <<>>)

\* dealloc that rebuilds the Vec and forgets it instead of dropping it
dealloc_forgotten(h, ptr, size) ==
    {[trap |-> FALSE, bad |-> FALSE, heap |-> h]}

\* dealloc(ptr, size): Vec::from_raw_parts(ptr, size, size), then drop
dealloc(h, ptr, size) == DropVec(h, ptr, size)


(***************************************************************************)
(* Reading the linear memory.                                              *)
(***************************************************************************)
\* the bytes of [a, a + n) when they lie in the written part of a live block
Readable(h, a, n) ==
    {SubSeq(p[1].init, p[2] + 1, p[2] + n[2]) :
        p \in {q \in h \X (0 .. PrefixLen + MaxLen) :
                  /\ n[1] = 0
                  /\ q[2] + n[2] <= Len(q[1].init)
                  /\ WAdd(q[1].off, W(q[2])) = a}}

\* lengths a prefix read outside every live block may decode to
JunkLens == {W(0), U32Max}

\* "hello", the payload of the end-to-end echo
Hello == <<104, 101, 108, 108, 111>>

\* the payloads and responses exchanged: "hello" cut to every length up to MaxLen
Payloads == {SubSeq(Hello, 1, n) : n \in 0 .. MaxLen}

\* "x" and "echo"
Names == {<<120>>, <<101, 99, 104, 111>>}

(***************************************************************************)
(* Values of the invocation in progress.                                   *)
(***************************************************************************)
NoBytes == [ptr |-> Null, len |-> W(0), data |-> <<>>, junk |-> FALSE]

NoSent == [off |-> Null, size |-> W(0), n |-> W(0), d |-> <<>>, buffer |-> FALSE]

NoMsg == [text |-> "", neg |-> FALSE, digits |-> <<>>]

NoResult == [kind |-> "none", msg |-> NoMsg, bytes |-> NoBytes]

\* the decimal digits of a number <= 0, most significant first
RECURSIVE DigitsOf(_)
DigitsOf(i) ==
    IF i = 0 THEN <<>>
    ELSE LET d == (10 - (i % 10)) % 10
         IN  Append(DigitsOf((i + d) \div 10), d)

\* Display of an i32, as format! writes {out_ptr}
Display(i) ==
    [neg |-> i < 0,
     digits |-> IF i = 0 THEN <<0>> ELSE DigitsOf(IF i < 0 THEN i ELSE -i)]

\* anyhow!("invoke_capability failed with error code {out_ptr}")
ErrorMessage(out_ptr) ==
    [text |-> "invoke_capability failed with error code ",
     neg |-> Display(out_ptr).neg, digits |-> Display(out_ptr).digits]

HostBlocks(h) == {b \in h : b.by = "host"}

Idle ==
    /\ name = <<>> /\ data = <<>> /\ namePtr = Null /\ dataPtr = Null
    /\ calls = <<>> /\ outPtr = 0 /\ numBytes = W(0) /\ bytes = NoBytes
    /\ result = NoResult /\ log = <<>> /\ sent = NoSent /\ leftAtRet = {}

Ev(op, x, y) == [op |-> op, x |-> x, y |-> y]

Init ==
    /\ heap = {}
    /\ hostHeld = {}
    /\ conv = TRUE
    /\ pc = "idle"
    /\ ev = Ev("init", Null, Null)
    /\ Idle

invocation == <<name, data, namePtr, dataPtr, calls, outPtr, numBytes, bytes,
                result, log, sent, leftAtRet>>

(***************************************************************************)
(* The host: it runs while the guest is idle or blocked in the foreign     *)
(* call, calls the exported alloc and dealloc, writes into blocks it       *)
(* holds, and ends the foreign call with one i32.  Once the host has broken *)
(* the convention the model follows the invocation in progress to its end  *)
(* and no further.                                                         *)
(***************************************************************************)
HostRuns == pc \in {"idle", "host"} /\ conv

\* sizes the host asks alloc for
HostLens ==
    {W(0)} \cup {W(PrefixLen + n) : n \in 0 .. MaxLen}
           \cup {IsizeMax, WAdd(IsizeMax, W(1)), U32Max}

\* the host calls alloc(len) and keeps the handle
HostAlloc(len) ==
    /\ HostRuns
    /\ Cardinality(hostHeld) < MaxHeld
    /\ \E o \in alloc(heap, len) :
         /\ heap' = o.heap
         /\ pc' = IF o.trap THEN "trap" ELSE pc
         /\ hostHeld' = IF o.trap THEN hostHeld
                        ELSE hostHeld \cup {[off |-> o.ptr, size |-> len]}
         /\ ev' = Ev("alloc", len, o.ptr)
    /\ UNCHANGED <<conv, invocation>>

\* the host calls dealloc on a handle it holds, with the size it reserved
\* (the convention) or with another one
HostDealloc(h, size) ==
    /\ HostRuns
    /\ h \in hostHeld
    /\ \E o \in dealloc(heap, h.off, size) :
         /\ heap' = o.heap
         /\ pc' = IF o.trap THEN "trap" ELSE pc
    /\ hostHeld' = hostHeld \ {h}
    /\ conv' = (conv /\ size = h.size)
    /\ ev' = Ev("dealloc", h.off, size)
    /\ UNCHANGED invocation

\* negative results the host reports a failure with
I32Min == (-(Limb \div 2)) * Limb

ErrCodes == {-1, -42, I32Min}

\* the host ends the foreign call with a failure code
HostReturnCode(code) ==
    /\ pc = "host"
    /\ outPtr' = code
    /\ sent' = NoSent
    /\ leftAtRet' = HostBlocks(heap)
    /\ pc' = "ret"
    /\ ev' = Ev("return", Null, Null)
    /\ UNCHANGED <<heap, hostHeld, conv, name, data, namePtr, dataPtr, calls,
                   numBytes, bytes, result, log>>

\* the host writes prefix n and bytes d into a block it holds and ends the
\* foreign call with the block's offset, giving the block up; the convention
\* is n = len(d) in a block of exactly 4 + len(d) bytes
HostRespond(h, n, d) ==
    /\ pc = "host"
    /\ h \in hostHeld
    /\ WLe(W(PrefixLen + Len(d)), h.size)
    /\ \E b \in heap :
         /\ b.off = h.off /\ b.size = h.size
         /\ heap' = (heap \ {b}) \cup {Block(b.off, b.size, b.by, ToLeBytes(n) \o d)}
    /\ hostHeld' = hostHeld \ {h}
    /\ outPtr' = AsI32(h.off)
    /\ sent' = [off |-> h.off, size |-> h.size, n |-> n, d |-> d, buffer |-> TRUE]
    /\ leftAtRet' = HostBlocks(heap')
    /\ conv' = (conv /\ n = W(Len(d)) /\ h.size = W(PrefixLen + Len(d)))
    /\ pc' = "ret"
    /\ ev' = Ev("return", h.off, h.size)
    /\ UNCHANGED <<name, data, namePtr, dataPtr, calls, numBytes, bytes, result, log>>

\* prefixes that are not the length of what follows them
LyingLens == {W(1), IsizeMax, WAdd(IsizeMax, W(1))}

\* results that are the offset of no buffer: 0 and the dangling pointer
Strays == {AsI32(Null), AsI32(Dangling)}

\* the host ends the foreign call with such a result
HostReturnStray(v) ==
    /\ pc = "host"
    /\ outPtr' = v
    /\ sent' = NoSent
    /\ leftAtRet' = HostBlocks(heap)
    /\ conv' = FALSE
    /\ pc' = "ret"
    /\ ev' = Ev("return", AsUsize(v), Null)
    /\ UNCHANGED <<heap, hostHeld, name, data, namePtr, dataPtr, calls,
                   numBytes, bytes, result, log>>


(***************************************************************************)
(* invoke_extension, up to the foreign call.                               *)
(***************************************************************************)
\* the four arguments with the payload's length taken from the name
invoke_raw_swapped(name_ptr, name_len, data_ptr, data_len) ==
    [name_ptr |-> AsU32(name_ptr), name_len |-> AsU32(name_len),
     data_ptr |-> AsU32(data_ptr), data_len |-> AsU32(name_len)]

\* invoke_raw(extension_name_ptr, extension_name_bytes.len() as u32,
\*            data_ptr, data.len() as u32)
invoke_raw(name_ptr, name_len, data_ptr, data_len) ==
    [name_ptr |-> AsU32(name_ptr), name_len |-> AsU32(name_len),
     data_ptr |-> AsU32(data_ptr), data_len |-> AsU32(data_len)]

\* the caller holds extension_name (a String) and data (a Vec<u8>);
\* invoke_extension takes their pointers and lengths and issues the call
InvokeCall(nm, d) ==
    /\ pc = "idle"
    /\ conv
    /\ \E o1 \in VecWithCapacity(heap, W(Len(nm)), "guest", nm) :
         /\ ~o1.trap
         /\ \E o2 \in VecWithCapacity(o1.heap, W(Len(d)), "guest", d) :
              /\ ~o2.trap
              /\ heap' = o2.heap
              /\ namePtr' = o1.ptr
              /\ dataPtr' = o2.ptr
              /\ calls' = Append(calls, invoke_raw(o1.ptr, W(Len(nm)), o2.ptr, W(Len(d))))
    /\ name' = nm
    /\ data' = d
    /\ pc' = "host"
    /\ ev' = Ev("call", Null, Null)
    /\ UNCHANGED <<hostHeld, conv, outPtr, numBytes, bytes, result, log, sent, leftAtRet>>

(***************************************************************************)
(* invoke_extension, after the foreign call.                               *)
(***************************************************************************)
\* the test the comment at line 29 describes: 0 signals the error
IsError_zero(out_ptr) == out_ptr = 0

\* the test made on the result cast to unsigned, where nothing is negative
IsError_unsigned(out_ptr) == AsUsize(out_ptr)[1] < 0

\* if out_ptr < 0
IsError(out_ptr) == out_ptr < 0

\* the error branch: Err(anyhow!(..)); extension_name_bytes is dropped
InvokeFail ==
    /\ pc = "ret"
    /\ IsError(outPtr)
    /\ result' = [kind |-> "err", msg |-> ErrorMessage(outPtr), bytes |-> NoBytes]
    /\ \E o \in DropVec(heap, namePtr, W(Len(name))) :
         /\ heap' = o.heap
         /\ pc' = IF o.trap THEN "trap" ELSE "done"
    /\ ev' = Ev("fail", Null, Null)
    /\ UNCHANGED <<hostHeld, conv, name, data, namePtr, dataPtr, calls, outPtr,
                   numBytes, bytes, log, sent, leftAtRet>>

\* the steps of get_bytes_from_host with the release before the copy
ReaderSteps_freeFirst == <<"rd_len", "rd_free", "rd_copy", "rd_ret">>

\* the steps of get_bytes_from_host in the order of its statements
ReaderSteps == <<"rd_len", "rd_copy", "rd_free", "rd_ret">>

StepAfter(p) ==
    ReaderSteps[1 + CHOOSE i \in 1 .. Len(ReaderSteps) - 1 : ReaderSteps[i] = p]

\* otherwise: get_bytes_from_host(out_ptr as usize)
InvokeRead ==
    /\ pc = "ret"
    /\ ~IsError(outPtr)
    /\ pc' = ReaderSteps[1]
    /\ ev' = Ev("reader", AsUsize(outPtr), Null)
    /\ UNCHANGED <<heap, hostHeld, conv, invocation>>

(***************************************************************************)
(* get_bytes_from_host(ptr).                                               *)
(***************************************************************************)
ptr == AsUsize(outPtr)

Read(at, n, ok) == [op |-> "read", at |-> at, n |-> n, ok |-> ok]

Free(at, n, ok) == [op |-> "free", at |-> at, n |-> n, ok |-> ok]

\* copy 4 bytes from ptr into len_buf, u32::from_le_bytes(len_buf); outside
\* the written part of a live block the read is undefined: it traps, or it
\* yields whatever is there
ReaderReadLen ==
    /\ pc = "rd_len"
    /\ LET r == Readable(heap, ptr, W(PrefixLen))
       IN  IF r # {}
             THEN /\ numBytes' = FromLeBytes(CHOOSE x \in r : TRUE)
                  /\ log' = Append(log, Read(ptr, W(PrefixLen), TRUE))
                  /\ pc' = StepAfter("rd_len")
             ELSE /\ log' = Append(log, Read(ptr, W(PrefixLen), FALSE))
                  /\ \/ pc' = "trap" /\ numBytes' = numBytes
                     \/ pc' = StepAfter("rd_len") /\ numBytes' \in JunkLens
    /\ ev' = Ev("read_len", ptr, Null)
    /\ UNCHANGED <<heap, hostHeld, conv, name, data, namePtr, dataPtr, calls,
                   outPtr, bytes, result, sent, leftAtRet>>

\* vec![0; num_bytes], then copy num_bytes bytes from ptr + 4 into it
ReaderCopy ==
    /\ pc = "rd_copy"
    /\ LET src == WrapUsize(WAdd(ptr, W(PrefixLen)))
           r == Readable(heap, src, numBytes)
           ok == numBytes = W(0) \/ r # {}
           got == IF numBytes # W(0) /\ r # {} THEN CHOOSE x \in r : TRUE ELSE <<>>
       IN  \E o \in VecWithCapacity(heap, numBytes, "guest", got) :
             /\ heap' = o.heap
             /\ bytes' = IF o.trap THEN bytes
                         ELSE [ptr |-> o.ptr, len |-> numBytes, data |-> got, junk |-> ~ok]
             /\ log' = IF o.trap THEN log ELSE Append(log, Read(src, numBytes, ok))
             /\ \/ pc' = IF o.trap THEN "trap" ELSE StepAfter("rd_copy")
                \/ ~o.trap /\ ~ok /\ pc' = "trap"
    /\ ev' = Ev("copy", ptr, numBytes)
    /\ UNCHANGED <<hostHeld, conv, name, data, namePtr, dataPtr, calls, outPtr,
                   numBytes, result, sent, leftAtRet>>

\* the release of the whole span but for its prefix
AllocSize_payloadOnly(num_bytes) == num_bytes

\* alloc_size = size_of::<u32>() + num_bytes as usize
AllocSize(num_bytes) == WrapUsize(WAdd(W(PrefixLen), num_bytes))

\* dealloc(ptr, alloc_size)
ReaderRelease ==
    /\ pc = "rd_free"
    /\ \E o \in dealloc(heap, ptr, AllocSize(numBytes)) :
         /\ heap' = o.heap
         /\ log' = Append(log, Free(ptr, AllocSize(numBytes), ~o.bad))
         /\ pc' = IF o.trap THEN "trap" ELSE StepAfter("rd_free")
    /\ ev' = Ev("release", ptr, AllocSize(numBytes))
    /\ UNCHANGED <<hostHeld, conv, name, data, namePtr, dataPtr, calls, outPtr,
                   numBytes, bytes, result, sent, leftAtRet>>

\* Ok(bytes), handed through by invoke_extension; extension_name_bytes is dropped
InvokeReturn ==
    /\ pc = "rd_ret"
    /\ result' = [kind |-> "ok", msg |-> NoMsg, bytes |-> bytes]
    /\ \E o \in DropVec(heap, namePtr, W(Len(name))) :
         /\ heap' = o.heap
         /\ pc' = IF o.trap THEN "trap" ELSE "done"
    /\ ev' = Ev("ok", Null, Null)
    /\ UNCHANGED <<hostHeld, conv, name, data, namePtr, dataPtr, calls, outPtr,
                   numBytes, bytes, log, sent, leftAtRet>>

\* the caller is done with the result: it drops it and its payload
CallerDone ==
    /\ pc = "done"
    /\ conv
    /\ heap' = {b \in heap :
                  ~(b.by = "guest" /\ b.off \in {dataPtr, bytes.ptr})}
    /\ pc' = "idle"
    /\ ev' = Ev("caller", Null, Null)
    /\ name' = <<>> /\ data' = <<>> /\ namePtr' = Null /\ dataPtr' = Null
    /\ calls' = <<>> /\ outPtr' = 0 /\ numBytes' = W(0) /\ bytes' = NoBytes
    /\ result' = NoResult /\ log' = <<>> /\ sent' = NoSent /\ leftAtRet' = {}
    /\ UNCHANGED <<hostHeld, conv>>

Next ==
    \/ \E len \in HostLens : HostAlloc(len)
    \/ \E h \in hostHeld :
         \E size \in {h.size, WrapUsize(WAdd(h.size, W(1)))} : HostDealloc(h, size)
    \/ \E code \in ErrCodes : HostReturnCode(code)
    \/ \E h \in hostHeld, d \in Payloads : HostRespond(h, W(Len(d)), d)
    \/ \E h \in hostHeld, n \in LyingLens : HostRespond(h, n, <<>>)
    \/ \E v \in Strays : HostReturnStray(v)
    \/ \E nm \in Names, d \in Payloads : InvokeCall(nm, d)
    \/ InvokeFail
    \/ InvokeRead
    \/ ReaderReadLen
    \/ ReaderCopy
    \/ ReaderRelease
    \/ InvokeReturn
    \/ CallerDone

Spec == Init /\ [][Next]_vars


(***************************************************************************)
(* Helpers of the properties.                                              *)
(***************************************************************************)
\* the number an error message's digits stand for
RECURSIVE MinusValue(_)
MinusValue(ds) ==
    IF ds = <<>> THEN 0
    ELSE MinusValue(SubSeq(ds, 1, Len(ds) - 1)) * 10 - ds[Len(ds)]

CodeOf(msg) == IF msg.neg THEN MinusValue(msg.digits) ELSE -MinusValue(msg.digits)

Frees == {i \in 1 .. Len(log) : log[i].op = "free"}

InReader == pc \in {"rd_len", "rd_copy", "rd_free", "rd_ret"}

LiveAt(off) == \E b \in heap : b.off = off

\* the host has handed a buffer over under the convention and the call's
\* result was not negative: the reader's precondition
ReaderPre == conv /\ sent.buffer /\ outPtr >= 0

(***************************************************************************)
(* C1.  Round trip: when the host reserves 4 + len(D) bytes through alloc, *)
(* writes len(D) little-endian and D, and returns the span's offset,       *)
(* invoke_extension returns Ok(D): same length, same bytes, no prefix.     *)
(***************************************************************************)
C1_RoundTrip ==
    (pc = "done" /\ conv /\ sent.buffer) =>
        /\ result.kind = "ok"
        /\ ~result.bytes.junk
        /\ result.bytes.len = W(Len(sent.d))
        /\ result.bytes.data = sent.d

C4_OffsetZeroUnused ==
    /\ \A b \in heap : b.off # Null
    /\ \A h \in hostHeld : h.off # Null
    /\ \A i \in 1 .. Len(log) : log[i].at # Null

(***************************************************************************)
(* C5.  As claimed: for every length prefix N of 32 bits the reader, once  *)
(* it has decoded N and run to its end, has issued exactly one release, at *)
(* the offset it was given and of exactly 4 + N bytes.                     *)
(***************************************************************************)
ReaderEnded ==
    \/ pc = "rd_ret"
    \/ pc = "done" /\ result.kind = "ok"
    \/ pc = "trap" /\ ev.op \in {"copy", "release"}

ReaderReleased ==
    \/ pc = "rd_ret"
    \/ pc = "done" /\ result.kind = "ok"
    \/ pc = "trap" /\ ev.op = "release"

ReadsOk == \A i \in 1 .. Len(log) : log[i].op = "read" => log[i].ok

OneRelease ==
    /\ Cardinality(Frees) = 1
    /\ \A i \in Frees : log[i].at = ptr /\ log[i].n = WAdd(W(PrefixLen), numBytes)

C5_EveryPrefix == (ReaderEnded /\ ReadsOk) => OneRelease

(***************************************************************************)
(* C5, amended.  For every prefix N for which the copy buffer is made and  *)
(* the copy completes (N <= isize::MAX), the reader issues exactly one     *)
(* release, at the offset it was given and of exactly 4 + N bytes without  *)
(* wraparound, the size the host reserved under the convention; for N = 0  *)
(* the result is empty and 4 bytes are released.  For N > isize::MAX the   *)
(* copy buffer's allocation panics and nothing is released.                *)
(***************************************************************************)
C5_ReleaseSize ==
    /\ Cardinality(Frees) <= 1
    /\ ReaderReleased =>
          /\ OneRelease
          /\ WLe(numBytes, IsizeMax)
          /\ WLt(WAdd(W(PrefixLen), numBytes), MemEnd)
    /\ (ReaderReleased /\ numBytes = W(0)) =>
          /\ bytes.data = <<>> /\ bytes.len = W(0)
          /\ \A i \in Frees : log[i].n = W(PrefixLen)
    /\ (ReaderReleased /\ ReaderPre) =>
          \A i \in Frees : log[i].n = sent.size /\ log[i].ok
    /\ (pc = "trap" /\ ev.op = "copy" /\ WLt(IsizeMax, numBytes)) => Frees = {}

C5_Witness ==
    /\ pc = "done" /\ result.kind = "ok" /\ ReaderPre /\ numBytes = W(0)
    /\ result.bytes.data = <<>>
    /\ \A i \in Frees : log[i].n = W(PrefixLen) /\ log[i].at = sent.off

(***************************************************************************)
(* C6.  As claimed: for every size L, alloc(L) returns a handle that       *)
(* stays live and owns L bytes.                                            *)
(***************************************************************************)
C6_AnySize ==
    ev.op = "alloc" =>
        /\ pc # "trap"
        /\ ev.x # W(0) => \E b \in heap : b.off = ev.y /\ b.size = ev.x

(***************************************************************************)
(* C6, amended.  For every size L from 0 to isize::MAX that the allocator  *)
(* can place, alloc(L) returns a handle that stays live and owns exactly   *)
(* L bytes of its own; dealloc(offset, L) with that offset and size never  *)
(* faults and takes exactly that block away, so the memory reserved after  *)
(* an alloc(L) / dealloc(offset, L) pair is what it was before and         *)
(* alloc(L) can be served again.  alloc fails only for L > isize::MAX or   *)
(* when no place is left.                                                  *)
(***************************************************************************)
C6_HeldAreLive ==
    \A h \in hostHeld :
        IF h.size = W(0) THEN h.off = Dangling
        ELSE \E b \in heap :
                /\ b.off = h.off /\ b.size = h.size /\ b.by = "host"
                /\ b.off # Null
                /\ WLe(WAdd(b.off, b.size), MemEnd)
                /\ \A c \in heap \ {b} : ~Overlaps(c, b.off, b.size)

C6_Step ==
    /\ (ev'.op = "alloc" /\ pc' # "trap") =>
          /\ WLe(ev'.x, IsizeMax)
          /\ heap' = heap \cup (IF ev'.x = W(0) THEN {}
                                ELSE {Block(ev'.y, ev'.x, "host", <<>>)})
          /\ [off |-> ev'.y, size |-> ev'.x] \in hostHeld'
    /\ (ev'.op = "alloc" /\ pc' = "trap") =>
          WLt(IsizeMax, ev'.x) \/ Places(heap, ev'.x, "host") = {}
    /\ (ev'.op = "dealloc" /\ conv') =>
          /\ pc' # "trap"
          /\ heap' = {b \in heap : ~(b.off = ev'.x /\ b.size = ev'.y)}
          /\ ev'.y # W(0) =>
                /\ Cardinality(heap') = Cardinality(heap) - 1
                /\ ev'.x \in Places(heap', ev'.y, "host")

C6_Pairing == [](C6_HeldAreLive) /\ [][C6_Step]_vars

C6_Witness ==
    /\ ev.op = "dealloc" /\ conv /\ pc = "host"
    /\ ev.y = W(PrefixLen + MaxLen) /\ ~LiveAt(ev.x)

(***************************************************************************)
(* C7.  Each invocation issues exactly one foreign call, whose arguments   *)
(* are the address and length of the name bytes and the address and        *)
(* length of the payload bytes; both ranges are live and unmodified from   *)
(* the call's issue to its return; an empty payload is passed with         *)
(* data_len = 0.                                                           *)
(***************************************************************************)
LiveBytes(p, bs) == bs = <<>> \/ Readable(heap, p, W(Len(bs))) = {bs}

C7_OneCall ==
    /\ pc = "idle" => calls = <<>>
    /\ (pc \in {"host", "ret", "done"} \/ InReader) =>
          /\ Len(calls) = 1
          /\ calls[1].name_ptr = namePtr /\ calls[1].name_len = W(Len(name))
          /\ calls[1].data_ptr = dataPtr /\ calls[1].data_len = W(Len(data))
          /\ calls[1].data_ptr # Null /\ calls[1].name_ptr # Null
    /\ pc \in {"host", "ret"} =>
          /\ LiveBytes(calls[1].name_ptr, name)
          /\ LiveBytes(calls[1].data_ptr, data)

C7_Witness ==
    /\ pc = "done" /\ data = <<>> /\ result.kind = "ok"
    /\ Len(calls) = 1 /\ calls[1].data_len = W(0) /\ calls[1].name_len = W(1)

(***************************************************************************)
(* C8.  Under the reader's precondition every byte the reader reads lies   *)
(* in [offset, offset + 4 + N) and is read while the span is live: the     *)
(* prefix first, then the N payload bytes into a buffer of the reader's    *)
(* own, and only then the release; the bytes returned are those the host   *)
(* wrote.                                                                  *)
(***************************************************************************)
ExpectedLog ==
    <<Read(ptr, W(PrefixLen), TRUE),
      Read(WAdd(ptr, W(PrefixLen)), W(Len(sent.d)), TRUE),
      Free(ptr, W(PrefixLen + Len(sent.d)), TRUE)>>

C8_ReadsInsideLiveSpan ==
    ReaderPre =>
        /\ Len(log) <= 3 /\ log = SubSeq(ExpectedLog, 1, Len(log))
        /\ \A i \in 1 .. Len(log) :
              log[i].op = "read" =>
                 /\ log[i].ok
                 /\ WLe(ptr, log[i].at)
                 /\ WLe(WAdd(log[i].at, log[i].n), WAdd(ptr, W(PrefixLen + Len(sent.d))))
                 /\ \A j \in Frees : i < j
        /\ pc \in {"rd_len", "rd_copy", "rd_free"} =>
              \E b \in heap : b.off = ptr /\ b.size = W(PrefixLen + Len(sent.d))
        /\ pc \in {"rd_free", "rd_ret", "done"} =>
              /\ bytes.data = sent.d /\ ~bytes.junk
              /\ sent.d # <<>> =>
                    \E c \in heap :
                       /\ c.off = bytes.ptr /\ c.by = "guest" /\ c.init = sent.d
                       /\ ~Overlaps(c, ptr, W(PrefixLen + Len(sent.d)))
        /\ pc \in {"rd_ret", "done"} => ~LiveAt(ptr) /\ Len(log) = 3

C8_Witness ==
    /\ pc = "done" /\ ReaderPre /\ Len(log) = 3
    /\ result.bytes.data = SubSeq(Hello, 1, MaxLen) /\ ~LiveAt(ptr)

(***************************************************************************)
(* C9.  When the foreign call returns a negative value the reader is not   *)
(* invoked: nothing is read, nothing is released, and the live             *)
(* host-created blocks after the failed invoke are those of the moment the *)
(* foreign call returned.                                                  *)
(***************************************************************************)
C9_FailureFrame ==
    outPtr < 0 =>
        /\ log = <<>>
        /\ ~InReader
        /\ pc = "done" => result.kind = "err" /\ HostBlocks(heap) = leftAtRet

C9_Witness ==
    /\ pc = "done" /\ outPtr = -42 /\ result.kind = "err"
    /\ leftAtRet # {} /\ HostBlocks(heap) = leftAtRet

(***************************************************************************)
(* C10.  Every offset alloc can hand to the host is usable as a call       *)
(* result: for a buffer the host reserved and populated at any 32-bit      *)
(* offset, 2^31 and above included, invoke_extension reads it at that      *)
(* offset, releases it and returns Ok.                                     *)
(***************************************************************************)
C10_EveryOffsetUsable ==
    (pc = "done" /\ conv /\ sent.buffer) =>
        /\ result.kind = "ok"
        /\ log # <<>> /\ log[1] = Read(sent.off, W(PrefixLen), TRUE)
        /\ \E i \in Frees : log[i].at = sent.off
        /\ ~LiveAt(sent.off)

============================================================================
